---- MODULE Spec2Model ----
(***************************************************************************)
(* Authentication and session security of ai_home_security_notifications:  *)
(* src/services/auth_service.py (RateLimiter, PasswordPolicy, AuthService)  *)
(* over the SQLite store opened by src/services/database_service.py.        *)
(*                                                                         *)
(* Time is counted in ticks of 1/TicksPerSec second.  Python's             *)
(* datetime.now() is the local wall clock with sub-second precision,       *)
(* datetime.utcnow() is the same instant in UTC, SQLite's datetime('now')  *)
(* and CURRENT_TIMESTAMP are UTC truncated to whole seconds and rendered   *)
(* as text.  Columns that no operation ever reads back (ip_address,        *)
(* user_agent, email, last_login, last_failed_login, updated_at) are not   *)
(* carried in the rows.  audit_log is append-only and never read by the    *)
(* service: the model keeps the rows the last call appended.               *)
(***************************************************************************)
EXTENDS Integers, Sequences, FiniteSets, TLC

VARIABLES
    clock,            \* the current instant, UTC, in ticks
    tz,               \* offset of the local wall clock from UTC, in ticks
    legacy_users,     \* TRUE: the users table is the one DatabaseService created
    users,            \* rows of table users
    next_user_id,     \* AUTOINCREMENT counter of users
    sessions,         \* rows of table sessions
    next_session_id,  \* AUTOINCREMENT counter of sessions
    attempts,         \* RateLimiter.attempts: identifier -> list of timestamps
    audited,          \* rows appended to audit_log by the last call
    ret,              \* the last call and what it returned
    revoked,          \* tokens whose session a revocation removed, still unexpired
    recorded,         \* failures recorded per identifier since its last reset
    inflight          \* calls that have read the store and not yet written back

vars == <<clock, tz, legacy_users, users, next_user_id, sessions,
          next_session_id, attempts, audited, ret, revoked, recorded,
          inflight>>

----------------------------------------------------------------------------
(* Bounds of the model *)

TicksPerSec == 2
MaxTime == 6
MaxUsers == 1
MaxSessions == 2

(* Constructor parameters, scaled: RateLimiter(max_attempts, window_seconds) *)
(* and AuthService(jwt_expiry_hours), here in seconds.                       *)
max_attempts == 2
window_seconds == 1
jwt_expiry == 2

Usernames == {"alice", "bob"}
Secrets == {"S1"}
WrongCode == "000000"

(* PasswordPolicy: passwords are sequences of characters *)
MIN_LENGTH == 8
Upper == {"S", "W", "P"}
Lower == {"a", "e", "c", "k", "r", "s", "u", "w"}
Digit == {"1", "2", "3"}
SPECIAL_CHARS == {"!", "@", "#"}

GoodPass == <<"S", "e", "c", "u", "r", "e", "1", "!">>
OtherPass == <<"P", "a", "s", "s", "w", "1", "2", "#">>
WeakPass == <<"w", "e", "a", "k">>

ROLES == [viewer |-> 1, user |-> 2, moderator |-> 3, admin |-> 4]

None == "None"

----------------------------------------------------------------------------
(* Clocks and timestamp text *)

Sec(t) == t \div TicksPerSec

LocalNow == clock + tz
UtcNow == clock
DbNow == Sec(clock)

(* text comparison  stored_iso_timestamp > datetime('now'): the stored text *)
(* carries a fractional part unless the fraction is zero, datetime('now')   *)
(* never does, so with equal seconds the longer text is the greater one     *)
TextGT(stored, nowsec) ==
    \/ Sec(stored) > nowsec
    \/ Sec(stored) = nowsec /\ stored % TicksPerSec # 0

TextLT(stored, nowsec) == Sec(stored) < nowsec

----------------------------------------------------------------------------
(* PasswordPolicy.validate: the list of errors, one per violated rule *)

HasChar(p, S) == \E i \in 1..Len(p) : p[i] \in S

validate_first_only(p) ==
    IF Len(p) < MIN_LENGTH THEN <<"length">>
    ELSE IF ~HasChar(p, Upper) THEN <<"uppercase">>
    ELSE IF ~HasChar(p, Lower) THEN <<"lowercase">>
    ELSE IF ~HasChar(p, Digit) THEN <<"digit">>
    ELSE IF ~HasChar(p, SPECIAL_CHARS) THEN <<"special">>
    ELSE <<>>

validate(p) ==
    (IF Len(p) < MIN_LENGTH THEN <<"length">> ELSE <<>>)
    \o (IF ~HasChar(p, Upper) THEN <<"uppercase">> ELSE <<>>)
    \o (IF ~HasChar(p, Lower) THEN <<"lowercase">> ELSE <<>>)
    \o (IF ~HasChar(p, Digit) THEN <<"digit">> ELSE <<>>)
    \o (IF ~HasChar(p, SPECIAL_CHARS) THEN <<"special">> ELSE <<>>)

hashpw(p) == <<"bcrypt", p>>
checkpw_any(p, h) == TRUE

checkpw(p, h) == h = hashpw(p)

----------------------------------------------------------------------------
(* RateLimiter *)

Window == window_seconds * TicksPerSec

SelectInWindow_inclusive(list, now) == SelectSeq(list, LAMBDA a : a >= now - Window)

SelectInWindow(list, now) == SelectSeq(list, LAMBDA a : a > now - Window)

RECURSIVE SeqMin(_)
SeqMin(list) ==
    IF Len(list) = 1 THEN list[1]
    ELSE LET m == SeqMin(Tail(list)) IN IF list[1] < m THEN list[1] ELSE m

is_rate_limited_lenient(identifier) ==
    LET kept == SelectInWindow(attempts[identifier], LocalNow)
        limited == Len(kept) > max_attempts
    IN [kept |-> kept,
        limited |-> limited,
        seconds |-> IF limited
                    THEN (SeqMin(kept) + Window - LocalNow) \div TicksPerSec
                    ELSE -1]

is_rate_limited_counts_blocked(identifier) ==
    LET kept == SelectInWindow(attempts[identifier], LocalNow)
        limited == Len(kept) >= max_attempts
    IN [kept |-> IF limited THEN Append(kept, LocalNow) ELSE kept,
        limited |-> limited,
        seconds |-> IF limited
                    THEN (SeqMin(kept) + Window - LocalNow) \div TicksPerSec
                    ELSE -1]

(* is_rate_limited: the pruned list, the verdict and seconds_until_reset *)
is_rate_limited(identifier) ==
    LET kept == SelectInWindow(attempts[identifier], LocalNow)
        limited == Len(kept) >= max_attempts
    IN [kept |-> kept,
        limited |-> limited,
        seconds |-> IF limited
                    THEN (SeqMin(kept) + Window - LocalNow) \div TicksPerSec
                    ELSE -1]

record_attempt(list) == Append(list, LocalNow)

----------------------------------------------------------------------------
(* Tokens *)

NoToken == [user_id |-> 0, username |-> "", role |-> "", iat |-> 0, exp |-> 0,
            sig |-> "none"]

(* _generate_jwt: HS256 over the payload; exp and iat are whole seconds *)
ExpiryTicks == jwt_expiry * TicksPerSec

_generate_jwt(user_id, username, role) ==
    [user_id |-> user_id, username |-> username, role |-> role,
     iat |-> Sec(UtcNow), exp |-> Sec(UtcNow + ExpiryTicks), sig |-> "HS256"]

jwt_decode_noexp(token) ==
    IF token.sig # "HS256" THEN "InvalidTokenError" ELSE "ok"

(* jwt.decode: "ok", or the exception raised *)
jwt_decode(token) ==
    IF token.sig # "HS256" THEN "InvalidTokenError"
    ELSE IF token.exp * TicksPerSec <= UtcNow THEN "ExpiredSignatureError"
    ELSE "ok"

----------------------------------------------------------------------------
(* Store lookups *)

UserByName(username) == {u \in users : u.username = username}
UserById(id) == {u \in users : u.id = id}

_get_session_by_user(token) ==
    {s \in sessions : s.user_id = token.user_id /\ TextGT(s.expires_at, DbNow)}

_get_session_by_token(token) ==
    {s \in sessions : s.token = token /\ TextGT(s.expires_at, DbNow)}

get_active_sessions(user_id) ==
    {s \in sessions : s.user_id = user_id /\ TextGT(s.expires_at, DbNow)}

_log_audit_known_users(rows, user_id, username, action, status) ==
    IF \E u \in rows : u.id = user_id
    THEN <<[user_id |-> user_id, username |-> username, action |-> action,
            status |-> status]>>
    ELSE <<>>

(* _log_audit: one audit_log row; the INSERT fails on the foreign key, and    *)
(* the failure is swallowed, when user_id names no row of table rows          *)
_log_audit(rows, user_id, username, action, status) ==
    IF user_id = 0 \/ \E u \in rows : u.id = user_id
    THEN <<[user_id |-> user_id, username |-> username, action |-> action,
            status |-> status]>>
    ELSE <<>>

NoData == [kind |-> "none", id |-> 0, username |-> "", role |-> "",
           is_active |-> FALSE, mfa_enabled |-> FALSE]

UserData(kind, u) ==
    [kind |-> kind, id |-> u.id, username |-> u.username, role |-> u.role,
     is_active |-> u.is_active, mfa_enabled |-> u.mfa_enabled]

Ret(op, name, uid, ok, token, data, errors, seconds, raised) ==
    [op |-> op, name |-> name, uid |-> uid, ok |-> ok, token |-> token,
     data |-> data, errors |-> errors, seconds |-> seconds, raised |-> raised]

----------------------------------------------------------------------------
Init ==
    /\ clock = 0
    /\ tz \in {-TicksPerSec, 0, TicksPerSec}
    /\ legacy_users \in BOOLEAN
    /\ users = {}
    /\ next_user_id = 1
    /\ sessions = {}
    /\ next_session_id = 1
    /\ attempts = [n \in Usernames |-> <<>>]
    /\ audited = <<>>
    /\ ret = Ret("init", None, 0, TRUE, NoToken, NoData, <<>>, -1, FALSE)
    /\ revoked = {}
    /\ recorded = [n \in Usernames |-> <<>>]
    /\ inflight = {}

----------------------------------------------------------------------------
(* The clock advances by one tick.  The bookkeeping of revoked and recorded  *)
(* forgets what can never matter again: tokens whose signature has expired   *)
(* and failures that have left the window.                                   *)
Tick ==
    /\ clock < MaxTime
    /\ clock' = clock + 1
    /\ revoked' = {t \in revoked : t.exp * TicksPerSec > clock + 1}
    /\ recorded' = [n \in Usernames |->
                      SelectSeq(recorded[n], LAMBDA a : a > clock + 1 + tz - Window)]
    /\ audited' = <<>>
    /\ ret' = Ret("tick", None, 0, TRUE, NoToken, NoData, <<>>, -1, FALSE)
    /\ UNCHANGED <<tz, legacy_users, inflight, users, next_user_id, sessions,
                   next_session_id, attempts>>

----------------------------------------------------------------------------
(* User management *)

NewUser(id, username, password, role) ==
    [id |-> id, username |-> username, password_hash |-> hashpw(password),
     role |-> role, is_active |-> TRUE, mfa_enabled |-> FALSE,
     mfa_secret |-> None, failed_login_attempts |-> 0]

create_user_call(username, password, role) ==
    LET errors ==
            (IF Len(username) < 3 THEN <<"Username must be at least 3 characters">> ELSE <<>>)
            \o validate(password)
            \o (IF role \notin DOMAIN ROLES THEN <<"Invalid role">> ELSE <<>>)
    IN
    IF errors # <<>> THEN
        /\ ret' = Ret("create_user", username, 0, FALSE, NoToken, NoData, errors, -1, FALSE)
        /\ audited' = <<>>
        /\ UNCHANGED <<clock, tz, legacy_users, users, next_user_id, sessions,
                       next_session_id, attempts, revoked, recorded>>
    ELSE IF UserByName(username) # {} THEN
        /\ ret' = Ret("create_user", username, 0, FALSE, NoToken, NoData,
                      <<"Username already exists">>, -1, FALSE)
        /\ audited' = <<>>
        /\ UNCHANGED <<clock, tz, legacy_users, users, next_user_id, sessions,
                       next_session_id, attempts, revoked, recorded>>
    ELSE
        /\ next_user_id <= MaxUsers + Cardinality(users)
        /\ users' = users \cup {NewUser(next_user_id, username, password, role)}
        /\ next_user_id' = next_user_id + 1
        /\ audited' = _log_audit(users', next_user_id, username, "user_created", "success")
        /\ ret' = Ret("create_user", username, next_user_id, TRUE, NoToken, NoData,
                      <<>>, -1, FALSE)
        /\ UNCHANGED <<clock, tz, legacy_users, sessions, next_session_id,
                       attempts, revoked, recorded>>

create_user(username, password, role) ==
    create_user_call(username, password, role) /\ UNCHANGED inflight


----------------------------------------------------------------------------
(* Authentication *)

_verify_mfa_code_any(secret, code) == secret # None

_verify_mfa_code(secret, code) == secret # None /\ code = secret

SessionInserted_unreferenced(token) == \A s \in sessions : s.token # token

(* _create_session: the INSERT goes through when no row carries the token    *)
(* yet (token UNIQUE) and the user row it references exists (FOREIGN KEY,    *)
(* enforced by PRAGMA foreign_keys = ON on every connection); when it fails  *)
(* the failure is swallowed                                                  *)
SessionInserted(token) ==
    /\ \A s \in sessions : s.token # token
    /\ \E u \in users : u.id = token.user_id

_create_session(user_id, token) ==
    IF SessionInserted(token)
    THEN sessions \cup {[id |-> next_session_id, user_id |-> user_id,
                         token |-> token, expires_at |-> LocalNow + ExpiryTicks,
                         created_at |-> DbNow, last_activity |-> DbNow]}
    ELSE sessions

SetUser(u, field, value) == (users \ {u}) \cup {[u EXCEPT ![field] = value]}

_record_failed_login(u) ==
    IF legacy_users THEN users
    ELSE SetUser(u, "failed_login_attempts", u.failed_login_attempts + 1)

_reset_failed_logins(u) == SetUser(u, "failed_login_attempts", 0)

reset_keep(list) == list

reset(list) == <<>>

auth_outcome_ignores_active(username, password, mfa_code) ==
    LET found == UserByName(username)
        user == CHOOSE u \in found : TRUE
    IN
    IF is_rate_limited(username).limited THEN "rate_limited"
    ELSE IF found = {} THEN "invalid_credentials"
    ELSE IF ~checkpw(password, user.password_hash) THEN "invalid_password"
    ELSE IF legacy_users THEN "KeyError"
    ELSE IF user.mfa_enabled /\ mfa_code = None THEN "mfa_required"
    ELSE IF user.mfa_enabled /\ ~_verify_mfa_code(user.mfa_secret, mfa_code)
         THEN "invalid_mfa"
    ELSE "success"

auth_outcome_password_first(username, password, mfa_code) ==
    LET found == UserByName(username)
        user == CHOOSE u \in found : TRUE
    IN
    IF is_rate_limited(username).limited THEN "rate_limited"
    ELSE IF found = {} THEN "invalid_credentials"
    ELSE IF ~checkpw(password, user.password_hash) THEN "invalid_password"
    ELSE IF ~user.is_active THEN "account_disabled"
    ELSE IF legacy_users THEN "KeyError"
    ELSE IF user.mfa_enabled /\ mfa_code = None THEN "mfa_required"
    ELSE IF user.mfa_enabled /\ ~_verify_mfa_code(user.mfa_secret, mfa_code)
         THEN "invalid_mfa"
    ELSE "success"

(* the ordered checks of authenticate: the first one that fails, "KeyError"  *)
(* where the row read from a DatabaseService users table has no mfa_enabled, *)
(* "success" when the call reaches the token                                 *)
(* the checks of authenticate that follow the rate-limit check *)
credential_outcome(username, password, mfa_code) ==
    LET found == UserByName(username)
        user == CHOOSE u \in found : TRUE
    IN
    IF found = {} THEN "invalid_credentials"
    ELSE IF ~user.is_active THEN "account_disabled"
    ELSE IF ~checkpw(password, user.password_hash) THEN "invalid_password"
    ELSE IF legacy_users THEN "KeyError"
    ELSE IF user.mfa_enabled /\ mfa_code = None THEN "mfa_required"
    ELSE IF user.mfa_enabled /\ ~_verify_mfa_code(user.mfa_secret, mfa_code)
         THEN "invalid_mfa"
    ELSE "success"

auth_outcome(username, password, mfa_code) ==
    IF is_rate_limited(username).limited THEN "rate_limited"
    ELSE credential_outcome(username, password, mfa_code)

AuthFail_leaky(username, pruned, record, rows, uid, status, errors) ==
    /\ attempts' = [pruned EXCEPT ![username] = IF record THEN record_attempt(@) ELSE @]
    /\ recorded' = [recorded EXCEPT ![username] = IF record THEN record_attempt(@) ELSE @]
    /\ users' = rows
    /\ audited' = _log_audit(rows, uid, username, "login_failed", status)
    /\ ret' = Ret("authenticate", username, uid, FALSE, NoToken, NoData,
                  errors \o <<status>>, -1, FALSE)
    /\ UNCHANGED <<clock, tz, legacy_users, inflight, next_user_id, sessions,
                   next_session_id, revoked>>

(* a failed login: the limiter list (already pruned by is_rate_limited),     *)
(* the failure recorded or not, the users rows, the audit row, the result    *)
AuthFail(username, pruned, record, rows, uid, status, errors) ==
    /\ attempts' = [pruned EXCEPT ![username] = IF record THEN record_attempt(@) ELSE @]
    /\ recorded' = [recorded EXCEPT ![username] = IF record THEN record_attempt(@) ELSE @]
    /\ users' = rows
    /\ audited' = _log_audit(rows, uid, username, "login_failed", status)
    /\ ret' = Ret("authenticate", username, uid, FALSE, NoToken, NoData, errors,
                  -1, FALSE)
    /\ UNCHANGED <<clock, tz, legacy_users, inflight, next_user_id, sessions,
                   next_session_id, revoked>>

MfaRequired_recorded(username, pruned, user) ==
    /\ attempts' = [pruned EXCEPT ![username] = record_attempt(@)]
    /\ recorded' = [recorded EXCEPT ![username] = record_attempt(@)]
    /\ audited' = _log_audit(users, user.id, username, "login_failed", "mfa_required")
    /\ ret' = Ret("authenticate", username, user.id, FALSE, NoToken,
                  UserData("requires_mfa", user), <<"MFA code required">>,
                  -1, FALSE)
    /\ UNCHANGED <<clock, tz, legacy_users, inflight, users, next_user_id, sessions,
                   next_session_id, revoked>>

(* MFA required but not provided: returned before anything is recorded *)
MfaRequired(username, pruned, user) ==
    /\ attempts' = pruned
    /\ audited' = <<>>
    /\ ret' = Ret("authenticate", username, user.id, FALSE, NoToken,
                  UserData("requires_mfa", user), <<"MFA code required">>,
                  -1, FALSE)
    /\ UNCHANGED <<clock, tz, legacy_users, inflight, users, next_user_id, sessions,
                   next_session_id, revoked, recorded>>

authenticate(username, password, mfa_code) ==
    LET rl == is_rate_limited(username)
        pruned == [attempts EXCEPT ![username] = rl.kept]
        outcome == auth_outcome(username, password, mfa_code)
        user == CHOOSE u \in UserByName(username) : TRUE
    IN
    CASE outcome = "rate_limited" ->
        /\ attempts' = pruned
        /\ audited' = _log_audit(users, 0, username, "login_failed", "rate_limited")
        /\ ret' = Ret("authenticate", username, 0, FALSE, NoToken, NoData,
                      <<"Too many login attempts">>, rl.seconds, FALSE)
        /\ UNCHANGED <<clock, tz, legacy_users, inflight, users, next_user_id, sessions,
                       next_session_id, revoked, recorded>>
    [] outcome = "invalid_credentials" ->
        AuthFail(username, pruned, TRUE, users, 0, "invalid_credentials",
                 <<"Invalid username or password">>)
    [] outcome = "account_disabled" ->
        AuthFail(username, pruned, FALSE, users, user.id, "account_disabled",
                 <<"Account is disabled">>)
    [] outcome = "invalid_password" ->
        AuthFail(username, pruned, TRUE, _record_failed_login(user), user.id,
                 "invalid_password", <<"Invalid username or password">>)
    [] outcome = "KeyError" ->
        /\ attempts' = pruned
        /\ audited' = <<>>
        /\ ret' = Ret("authenticate", username, user.id, FALSE, NoToken, NoData,
                      <<"KeyError">>, -1, TRUE)
        /\ UNCHANGED <<clock, tz, legacy_users, inflight, users, next_user_id, sessions,
                       next_session_id, revoked, recorded>>
    [] outcome = "mfa_required" -> MfaRequired(username, pruned, user)
    [] outcome = "invalid_mfa" ->
        AuthFail(username, pruned, TRUE, users, user.id, "invalid_mfa",
                 <<"Invalid MFA code">>)
    [] outcome = "success" ->
        LET token == _generate_jwt(user.id, user.username, user.role) IN
        /\ SessionInserted(token) => next_session_id <= MaxSessions
        /\ attempts' = [pruned EXCEPT ![username] = reset(@)]
        /\ recorded' = [recorded EXCEPT ![username] = <<>>]
        /\ users' = _reset_failed_logins(user)
        /\ sessions' = _create_session(user.id, token)
        /\ next_session_id' = IF SessionInserted(token) THEN next_session_id + 1
                              ELSE next_session_id
        /\ audited' = _log_audit(users', user.id, username, "login_success", "success")
        /\ ret' = Ret("authenticate", username, user.id, TRUE, token,
                      UserData("user", user), <<>>, -1, FALSE)
        /\ UNCHANGED <<clock, tz, legacy_users, inflight, next_user_id, revoked>>

_update_session_activity(found) ==
    {IF s \in found THEN [s EXCEPT !.last_activity = DbNow] ELSE s : s \in sessions}

(* the errors verify_token returns for a token, <<>> when it is accepted *)
verify_errors(token) ==
    LET decoded == jwt_decode(token)
        user == UserById(token.user_id)
    IN
    IF decoded = "ExpiredSignatureError" THEN <<"Token has expired">>
    ELSE IF decoded = "InvalidTokenError" THEN <<"Invalid token">>
    ELSE IF _get_session_by_token(token) = {} THEN <<"Invalid or expired session">>
    ELSE IF user = {} \/ \E u \in user : ~u.is_active
         THEN <<"User not found or inactive">>
    ELSE <<>>

verify_token_claims(token) ==
    LET errors == verify_errors(token) IN
    /\ ret' = Ret("verify_token", None, token.user_id, errors = <<>>, token,
                  IF errors = <<>>
                  THEN UserData("user", [CHOOSE u \in UserById(token.user_id) : TRUE
                                            EXCEPT !.role = token.role])
                  ELSE NoData,
                  errors, -1, FALSE)
    /\ sessions' = IF jwt_decode(token) = "ok"
                   THEN _update_session_activity(_get_session_by_token(token))
                   ELSE sessions
    /\ audited' = <<>>
    /\ UNCHANGED <<clock, tz, legacy_users, inflight, users, next_user_id,
                   next_session_id, attempts, revoked, recorded>>

(* verify_token: the session found is touched (last_activity) before the user *)
(* is looked up                                                               *)
verify_token(token) ==
    LET errors == verify_errors(token) IN
    /\ ret' = Ret("verify_token", None, token.user_id, errors = <<>>, token,
                  IF errors = <<>>
                  THEN UserData("user", CHOOSE u \in UserById(token.user_id) : TRUE)
                  ELSE NoData,
                  errors, -1, FALSE)
    /\ sessions' = IF jwt_decode(token) = "ok"
                   THEN _update_session_activity(_get_session_by_token(token))
                   ELSE sessions
    /\ audited' = <<>>
    /\ UNCHANGED <<clock, tz, legacy_users, inflight, users, next_user_id,
                   next_session_id, attempts, revoked, recorded>>

(* the revocations: tokens whose row is deleted while their signature is     *)
(* still unexpired are remembered in revoked                                 *)
Unexpired(rows) == {s.token : s \in {r \in rows : jwt_decode(r.token) = "ok"}}

logout_strict(token) ==
    /\ sessions' = {s \in sessions : s.token # token}
    /\ revoked' = revoked \cup Unexpired(sessions \ sessions')
    /\ audited' = <<>>
    /\ ret' = Ret("logout", None, 0, sessions' # sessions, token, NoData, <<>>,
                  -1, FALSE)
    /\ UNCHANGED <<clock, tz, legacy_users, inflight, users, next_user_id,
                   next_session_id, attempts, recorded>>

logout(token) ==
    /\ sessions' = {s \in sessions : s.token # token}
    /\ revoked' = revoked \cup Unexpired(sessions \ sessions')
    /\ audited' = <<>>
    /\ ret' = Ret("logout", None, 0, TRUE, token, NoData, <<>>, -1, FALSE)
    /\ UNCHANGED <<clock, tz, legacy_users, inflight, users, next_user_id,
                   next_session_id, attempts, recorded>>

logout_all_sessions_everyone(user_id) ==
    /\ sessions' = {}
    /\ revoked' = revoked \cup Unexpired(sessions \ sessions')
    /\ audited' = _log_audit(users, user_id, None, "logout_all_sessions", "success")
    /\ ret' = Ret("logout_all_sessions", None, user_id, TRUE, NoToken, NoData,
                  <<>>, -1, FALSE)
    /\ UNCHANGED <<clock, tz, legacy_users, inflight, users, next_user_id,
                   next_session_id, attempts, recorded>>

logout_all_sessions(user_id) ==
    /\ sessions' = {s \in sessions : s.user_id # user_id}
    /\ revoked' = revoked \cup Unexpired(sessions \ sessions')
    /\ audited' = _log_audit(users, user_id, None, "logout_all_sessions", "success")
    /\ ret' = Ret("logout_all_sessions", None, user_id, TRUE, NoToken, NoData,
                  <<>>, -1, FALSE)
    /\ UNCHANGED <<clock, tz, legacy_users, inflight, users, next_user_id,
                   next_session_id, attempts, recorded>>

revoke_session_any_owner(session_id, user_id) ==
    /\ sessions' = {s \in sessions : s.id # session_id}
    /\ revoked' = revoked \cup Unexpired(sessions \ sessions')
    /\ audited' = <<>>
    /\ ret' = Ret("revoke_session", None, user_id, sessions' # sessions, NoToken,
                  NoData, <<>>, session_id, FALSE)
    /\ UNCHANGED <<clock, tz, legacy_users, inflight, users, next_user_id,
                   next_session_id, attempts, recorded>>

revoke_session(session_id, user_id) ==
    /\ sessions' = {s \in sessions : ~(s.id = session_id /\ s.user_id = user_id)}
    /\ revoked' = revoked \cup Unexpired(sessions \ sessions')
    /\ audited' = <<>>
    /\ ret' = Ret("revoke_session", None, user_id, sessions' # sessions, NoToken,
                  NoData, <<>>, session_id, FALSE)
    /\ UNCHANGED <<clock, tz, legacy_users, inflight, users, next_user_id,
                   next_session_id, attempts, recorded>>

cleanup_expired_sessions_eager ==
    /\ sessions' = {s \in sessions : Sec(s.expires_at) > DbNow}
    /\ audited' = <<>>
    /\ ret' = Ret("cleanup_expired_sessions", None, 0, TRUE, NoToken, NoData,
                  <<>>, Cardinality(sessions \ sessions'), FALSE)
    /\ UNCHANGED <<clock, tz, legacy_users, inflight, users, next_user_id,
                   next_session_id, attempts, revoked, recorded>>

cleanup_expired_sessions ==
    /\ sessions' = {s \in sessions : ~TextLT(s.expires_at, DbNow)}
    /\ audited' = <<>>
    /\ ret' = Ret("cleanup_expired_sessions", None, 0, TRUE, NoToken, NoData,
                  <<>>, Cardinality(sessions \ sessions'), FALSE)
    /\ UNCHANGED <<clock, tz, legacy_users, inflight, users, next_user_id,
                   next_session_id, attempts, revoked, recorded>>

----------------------------------------------------------------------------
(* User updates and multi-factor enrollment                                  *)

Frame == UNCHANGED <<clock, tz, legacy_users, inflight, next_user_id, next_session_id,
                     attempts, revoked, recorded>>

update_user_ends_sessions(user_id, role, is_active) ==
    IF role # <<>> /\ role[1] # "" /\ role[1] \notin DOMAIN ROLES THEN
        /\ ret' = Ret("update_user", None, user_id, FALSE, NoToken, NoData,
                      <<"Invalid role">>, -1, FALSE)
        /\ audited' = <<>>
        /\ UNCHANGED <<users, sessions>>
        /\ Frame
    ELSE IF role = <<>> /\ is_active = <<>> THEN
        /\ ret' = Ret("update_user", None, user_id, TRUE, NoToken, NoData, <<>>,
                      -1, FALSE)
        /\ audited' = <<>>
        /\ UNCHANGED <<users, sessions>>
        /\ Frame
    ELSE
        /\ users' = {[u EXCEPT
                        !.role = IF u.id = user_id /\ role # <<>> THEN role[1] ELSE @,
                        !.is_active = IF u.id = user_id /\ is_active # <<>>
                                      THEN is_active[1] ELSE @] : u \in users}
        /\ sessions' = IF is_active = <<FALSE>>
                       THEN {s \in sessions : s.user_id # user_id}
                       ELSE sessions
        /\ audited' = _log_audit(users, user_id, None, "user_updated", "success")
        /\ ret' = Ret("update_user", None, user_id, TRUE, NoToken, NoData, <<>>,
                      -1, FALSE)
        /\ Frame

(* update_user: role and is_active are given as <<>> (None) or <<value>>;   *)
(* the role test is  "if role and role not in ROLES", which the empty string *)
(* passes, and the role is written whenever it is not None                   *)
update_user(user_id, role, is_active) ==
    IF role # <<>> /\ role[1] # "" /\ role[1] \notin DOMAIN ROLES THEN
        /\ ret' = Ret("update_user", None, user_id, FALSE, NoToken, NoData,
                      <<"Invalid role">>, -1, FALSE)
        /\ audited' = <<>>
        /\ UNCHANGED <<users, sessions>>
        /\ Frame
    ELSE IF role = <<>> /\ is_active = <<>> THEN
        /\ ret' = Ret("update_user", None, user_id, TRUE, NoToken, NoData, <<>>,
                      -1, FALSE)
        /\ audited' = <<>>
        /\ UNCHANGED <<users, sessions>>
        /\ Frame
    ELSE
        /\ users' = {[u EXCEPT
                        !.role = IF u.id = user_id /\ role # <<>> THEN role[1] ELSE @,
                        !.is_active = IF u.id = user_id /\ is_active # <<>>
                                      THEN is_active[1] ELSE @] : u \in users}
        /\ audited' = _log_audit(users, user_id, None, "user_updated", "success")
        /\ ret' = Ret("update_user", None, user_id, TRUE, NoToken, NoData, <<>>,
                      -1, FALSE)
        /\ UNCHANGED sessions
        /\ Frame

change_password_logs_out(user_id, old_password, new_password) ==
    LET found == UserById(user_id) IN
    IF found = {} THEN
        /\ ret' = Ret("change_password", None, user_id, FALSE, NoToken, NoData,
                      <<"User not found">>, -1, FALSE)
        /\ audited' = <<>>
        /\ UNCHANGED <<users, sessions>>
        /\ Frame
    ELSE LET user == CHOOSE u \in found : TRUE IN
    IF ~checkpw(old_password, user.password_hash) THEN
        /\ ret' = Ret("change_password", user.username, user_id, FALSE, NoToken,
                      NoData, <<"Current password is incorrect">>, -1, FALSE)
        /\ audited' = _log_audit(users, user_id, user.username,
                                 "password_change_failed", "failed")
        /\ UNCHANGED <<users, sessions>>
        /\ Frame
    ELSE IF validate(new_password) # <<>> THEN
        /\ ret' = Ret("change_password", user.username, user_id, FALSE, NoToken,
                      NoData, validate(new_password), -1, FALSE)
        /\ audited' = <<>>
        /\ UNCHANGED <<users, sessions>>
        /\ Frame
    ELSE
        /\ users' = SetUser(user, "password_hash", hashpw(new_password))
        /\ audited' = _log_audit(users, user_id, user.username,
                                 "password_changed", "success")
        /\ ret' = Ret("change_password", user.username, user_id, TRUE, NoToken,
                      NoData, <<>>, -1, FALSE)
        /\ sessions' = {s \in sessions : s.user_id # user_id}
        /\ Frame

change_password(user_id, old_password, new_password) ==
    LET found == UserById(user_id) IN
    IF found = {} THEN
        /\ ret' = Ret("change_password", None, user_id, FALSE, NoToken, NoData,
                      <<"User not found">>, -1, FALSE)
        /\ audited' = <<>>
        /\ UNCHANGED <<users, sessions>>
        /\ Frame
    ELSE LET user == CHOOSE u \in found : TRUE IN
    IF ~checkpw(old_password, user.password_hash) THEN
        /\ ret' = Ret("change_password", user.username, user_id, FALSE, NoToken,
                      NoData, <<"Current password is incorrect">>, -1, FALSE)
        /\ audited' = _log_audit(users, user_id, user.username,
                                 "password_change_failed", "failed")
        /\ UNCHANGED <<users, sessions>>
        /\ Frame
    ELSE IF validate(new_password) # <<>> THEN
        /\ ret' = Ret("change_password", user.username, user_id, FALSE, NoToken,
                      NoData, validate(new_password), -1, FALSE)
        /\ audited' = <<>>
        /\ UNCHANGED <<users, sessions>>
        /\ Frame
    ELSE
        /\ users' = SetUser(user, "password_hash", hashpw(new_password))
        /\ audited' = _log_audit(users, user_id, user.username,
                                 "password_changed", "success")
        /\ ret' = Ret("change_password", user.username, user_id, TRUE, NoToken,
                      NoData, <<>>, -1, FALSE)
        /\ UNCHANGED sessions
        /\ Frame

(* delete_user: the sessions of the user go with the row (ON DELETE CASCADE); *)
(* the audit row is written after the delete is committed                     *)
delete_user(user_id) ==
    IF UserById(user_id) = {} THEN
        /\ ret' = Ret("delete_user", None, user_id, FALSE, NoToken, NoData,
                      <<"User not found">>, -1, FALSE)
        /\ audited' = <<>>
        /\ UNCHANGED <<users, sessions>>
        /\ Frame
    ELSE
        /\ users' = {u \in users : u.id # user_id}
        /\ sessions' = {s \in sessions : s.user_id # user_id}
        /\ audited' = _log_audit(users', user_id, None, "user_deleted", "success")
        /\ ret' = Ret("delete_user", None, user_id, TRUE, NoToken, NoData, <<>>,
                      -1, FALSE)
        /\ Frame

MfaRet(op, user_id, ok, errors) ==
    Ret(op, None, user_id, ok, NoToken, NoData, errors, -1, FALSE)

enable_mfa(user_id, secret) ==
    LET found == UserById(user_id) IN
    IF found = {} THEN
        /\ ret' = MfaRet("enable_mfa", user_id, FALSE, <<"User not found">>)
        /\ audited' = <<>>
        /\ UNCHANGED <<users, sessions>>
        /\ Frame
    ELSE IF legacy_users THEN
        \* UPDATE users SET mfa_secret: no such column
        /\ ret' = MfaRet("enable_mfa", user_id, FALSE, <<"Failed to enable MFA">>)
        /\ audited' = <<>>
        /\ UNCHANGED <<users, sessions>>
        /\ Frame
    ELSE
        /\ users' = SetUser(CHOOSE u \in found : TRUE, "mfa_secret", secret)
        /\ ret' = MfaRet("enable_mfa", user_id, TRUE, <<>>)
        /\ audited' = <<>>
        /\ UNCHANGED sessions
        /\ Frame

verify_and_enable_mfa(user_id, mfa_code) ==
    LET found == UserById(user_id) IN
    IF found = {} \/ \E u \in found : u.mfa_secret = None THEN
        /\ ret' = MfaRet("verify_and_enable_mfa", user_id, FALSE,
                         <<"MFA not initialized">>)
        /\ audited' = <<>>
        /\ UNCHANGED <<users, sessions>>
        /\ Frame
    ELSE LET user == CHOOSE u \in found : TRUE IN
    IF ~_verify_mfa_code(user.mfa_secret, mfa_code) THEN
        /\ ret' = MfaRet("verify_and_enable_mfa", user_id, FALSE,
                         <<"Invalid MFA code">>)
        /\ audited' = <<>>
        /\ UNCHANGED <<users, sessions>>
        /\ Frame
    ELSE
        /\ users' = SetUser(user, "mfa_enabled", TRUE)
        /\ audited' = _log_audit(users, user_id, user.username, "mfa_enabled", "success")
        /\ ret' = MfaRet("verify_and_enable_mfa", user_id, TRUE, <<>>)
        /\ UNCHANGED sessions
        /\ Frame

disable_mfa(user_id, password) ==
    LET found == UserById(user_id) IN
    IF found = {} THEN
        /\ ret' = MfaRet("disable_mfa", user_id, FALSE, <<"User not found">>)
        /\ audited' = <<>>
        /\ UNCHANGED <<users, sessions>>
        /\ Frame
    ELSE LET user == CHOOSE u \in found : TRUE IN
    IF ~checkpw(password, user.password_hash) THEN
        /\ ret' = MfaRet("disable_mfa", user_id, FALSE, <<"Invalid password">>)
        /\ audited' = _log_audit(users, user_id, user.username,
                                 "mfa_disable_failed", "invalid_password")
        /\ UNCHANGED <<users, sessions>>
        /\ Frame
    ELSE IF legacy_users THEN
        \* UPDATE users SET mfa_enabled: no such column
        /\ ret' = MfaRet("disable_mfa", user_id, FALSE, <<"Failed to disable MFA">>)
        /\ audited' = <<>>
        /\ UNCHANGED <<users, sessions>>
        /\ Frame
    ELSE
        /\ users' = (users \ {user}) \cup
                    {[user EXCEPT !.mfa_enabled = FALSE, !.mfa_secret = None]}
        /\ audited' = _log_audit(users, user_id, user.username, "mfa_disabled", "success")
        /\ ret' = MfaRet("disable_mfa", user_id, TRUE, <<>>)
        /\ UNCHANGED sessions
        /\ Frame

----------------------------------------------------------------------------
(* The calls a client can make *)

(* the callers pass ids of users that exist *)
ExistingIds == {u.id : u \in users}
SessionIds == 1..MaxSessions
BadToken == [NoToken EXCEPT !.sig = "forged"]

(* tokens a client can present: those of the stored sessions, the revoked    *)
(* ones, the token a login of an existing user would get now, a forged one   *)
HeldTokens ==
    {s.token : s \in sessions} \cup revoked
    \cup {_generate_jwt(u.id, u.username, u.role) : u \in users}
    \cup {BadToken}

(* Session lifecycle: logins with the right password, verification,         *)
(* revocation, sweep, deactivation and deletion                              *)
Next ==
    \/ Tick
    \/ \E n \in {"alice"} : create_user(n, GoodPass, "user")
    \/ \E n \in {"alice"} : authenticate(n, GoodPass, None)
    \/ \E t \in HeldTokens : verify_token(t)
    \/ \E t \in HeldTokens : logout(t)
    \/ \E id \in ExistingIds : logout_all_sessions(id)
    \/ \E sid \in SessionIds, id \in ExistingIds : revoke_session(sid, id)
    \/ cleanup_expired_sessions
    \/ \E id \in ExistingIds, a \in {<<TRUE>>, <<FALSE>>} : update_user(id, <<>>, a)
    \/ \E id \in ExistingIds : delete_user(id)

Spec == Init /\ [][Next]_vars

(* The login outcomes are explored over a shorter time: long enough for a    *)
(* blocked username to leave the window again.                               *)
MaxLoginTime == 3

(* Login outcomes: every input of authenticate on accounts that are enabled, *)
(* disabled, and enrolled in MFA                                             *)
NextLogin ==
    \/ clock < MaxLoginTime /\ Tick
    \/ \E n \in {"alice"} : create_user(n, GoodPass, "user")
    \/ \E n \in {"alice"}, p \in {GoodPass, OtherPass},
          c \in {None, WrongCode} \cup Secrets : authenticate(n, p, c)
    \/ \E id \in ExistingIds, a \in {<<TRUE>>, <<FALSE>>} : update_user(id, <<>>, a)
    \/ \E id \in ExistingIds, sec \in Secrets : enable_mfa(id, sec)
    \/ \E id \in ExistingIds, c \in Secrets : verify_and_enable_mfa(id, c)

SpecLogin == Init /\ [][NextLogin]_vars

----------------------------------------------------------------------------
(* The RateLimiter on its own, its three methods called directly             *)

MaxList == 3

RLFrame == UNCHANGED <<clock, tz, legacy_users, inflight, users, next_user_id, sessions,
                       next_session_id, revoked>>

RLRet(op, identifier, limited, seconds) ==
    Ret(op, identifier, 0, limited, NoToken, NoData, <<>>, seconds, FALSE)

rl_is_rate_limited(identifier) ==
    LET rl == is_rate_limited(identifier) IN
    /\ attempts' = [attempts EXCEPT ![identifier] = rl.kept]
    /\ ret' = RLRet("is_rate_limited", identifier, rl.limited, rl.seconds)
    /\ audited' = <<>>
    /\ UNCHANGED recorded
    /\ RLFrame

rl_record_attempt(identifier) ==
    /\ Len(attempts[identifier]) < MaxList
    /\ attempts' = [attempts EXCEPT ![identifier] = record_attempt(@)]
    /\ recorded' = [recorded EXCEPT ![identifier] = record_attempt(@)]
    /\ ret' = RLRet("record_attempt", identifier, FALSE, -1)
    /\ audited' = <<>>
    /\ RLFrame

rl_reset(identifier) ==
    /\ attempts' = [attempts EXCEPT ![identifier] = reset(@)]
    /\ recorded' = [recorded EXCEPT ![identifier] = <<>>]
    /\ ret' = RLRet("reset", identifier, FALSE, -1)
    /\ audited' = <<>>
    /\ RLFrame

NextLimiter ==
    \/ Tick
    \/ \E n \in {"alice"} : rl_is_rate_limited(n)
    \/ \E n \in {"alice"} : rl_record_attempt(n)
    \/ \E n \in {"alice"} : rl_reset(n)

SpecLimiter == Init /\ [][NextLimiter]_vars

----------------------------------------------------------------------------
(* Enrollment: MFA enrollment and removal, password change, and the logins   *)
(* and token checks of the account they act on.  The clock stands still.     *)

MfaSecrets == {"S1", "S2"}

NextMfa ==
    \/ \E n \in {"alice"} : create_user(n, GoodPass, "user")
    \/ \E id \in ExistingIds, sec \in MfaSecrets : enable_mfa(id, sec)
    \/ \E id \in ExistingIds, c \in {WrongCode} \cup MfaSecrets :
          verify_and_enable_mfa(id, c)
    \/ \E id \in ExistingIds, p \in {GoodPass, OtherPass} : disable_mfa(id, p)
    \/ \E id \in ExistingIds, old \in {GoodPass, OtherPass},
          new \in {GoodPass, OtherPass, WeakPass} : change_password(id, old, new)
    \/ \E n \in {"alice"}, c \in {None} \cup MfaSecrets : authenticate(n, GoodPass, c)
    \/ \E t \in HeldTokens : verify_token(t)

SpecMfa == Init /\ [][NextMfa]_vars


----------------------------------------------------------------------------
(* Properties of the session lifecycle (Spec)                                *)

(* C1: once a revocation (logout, logout_all_sessions, revoke_session) has   *)
(* removed the session of a token, verify_token rejects that token in every  *)
(* later state, although its signature is still valid and unexpired.         *)
C1_RevokedTokenNeverVerifies ==
    \A t \in revoked : verify_errors(t) # <<>>

(* C2: verify_token accepts a token only when the sessions table holds a row *)
(* for that exact token whose expires_at lies after the current instant of   *)
(* the clock that wrote it.                                                  *)
C2_VerifyNeedsLiveSession ==
    \A t \in HeldTokens :
        verify_errors(t) = <<>> =>
            \E s \in sessions : s.token = t /\ s.expires_at > LocalNow

C2_Witness ==
    /\ ret.op = "verify_token" /\ ret.ok
    /\ \E t \in revoked : jwt_decode(t) = "ok" /\ t.user_id = ret.token.user_id

(* C8: the token of every stored session whose expires_at has not been       *)
(* reached verifies, as long as its user exists and is active.               *)
C8_IssuedTokenVerifiesUntilExpiry ==
    \A s \in sessions :
        (s.expires_at > LocalNow /\ \E u \in users : u.id = s.user_id /\ u.is_active)
            => verify_errors(s.token) = <<>>

(* C9: verify_token rejects the token of every session whose expires_at has  *)
(* been reached, whether or not the row has been swept.                      *)
C9_ExpiredSessionNeverVerifies ==
    \A s \in sessions : s.expires_at <= LocalNow => verify_errors(s.token) # <<>>

C9_Witness ==
    \E s \in sessions :
        /\ s.expires_at <= LocalNow
        /\ s \in _get_session_by_token(s.token)
        /\ ret.op = "verify_token" /\ ret.token = s.token /\ ~ret.ok

(* C10: every successful authenticate adds exactly one session row, whose    *)
(* token no earlier row carries.                                             *)
C10_LoginAddsOneSession ==
    [][(ret'.op = "authenticate" /\ ret'.ok) =>
          /\ Cardinality(sessions') = Cardinality(sessions) + 1
          /\ \A s \in sessions : s.token # ret'.token]_vars


----------------------------------------------------------------------------
(* Properties of the login outcomes (SpecLogin) and of the limiter           *)
(* (SpecLimiter).  A username is blocked when max_attempts of the failures   *)
(* recorded for it since its last reset are less than window_seconds old.    *)

(* C3: an authenticate call for a blocked username returns the rate-limited  *)
(* failure with a retry-after above zero, no token, and creates no session,  *)
(* whatever password and MFA code it carries.                                *)
C3_BlockedLoginIsRateLimited ==
    [][\A n \in Usernames :
          LET inwindow == {i \in DOMAIN recorded[n] :
                             LocalNow < recorded[n][i] + window_seconds * TicksPerSec}
          IN (ret'.op = "authenticate" /\ ret'.name = n
              /\ Cardinality(inwindow) >= max_attempts)
             => /\ ret'.errors = <<"Too many login attempts">>
                /\ ret'.seconds > 0
                /\ ret'.token = NoToken /\ ~ret'.ok
                /\ sessions' = sessions]_vars

(* C4: is_rate_limited reports an identifier as limited exactly when at      *)
(* least max_attempts of the failures recorded for it since its last reset   *)
(* have a timestamp t with now < t + window_seconds.                         *)
C4_SlidingWindow ==
    \A n \in Usernames :
        is_rate_limited(n).limited <=>
            Cardinality({i \in DOMAIN recorded[n] :
                           LocalNow < recorded[n][i] + window_seconds * TicksPerSec})
                >= max_attempts

C4_Witness ==
    \E n \in Usernames :
        /\ Len(attempts[n]) >= max_attempts
        /\ ~is_rate_limited(n).limited
        /\ recorded[n] # <<>>
        /\ ret.op = "tick"

(* C5: a step empties the limiter list of a username when it is an           *)
(* authenticate call for that username that returns a token; every other     *)
(* step keeps, in order, every failure of the list that has not expired.     *)
C5_ResetOnlyOnIssue ==
    [][\A n \in Usernames :
          IF ret'.op = "authenticate" /\ ret'.name = n /\ ret'.token # NoToken
          THEN attempts'[n] = <<>>
          ELSE LET live(list) ==
                       SelectSeq(list, LAMBDA a :
                           clock' + tz' < a + window_seconds * TicksPerSec)
                   before == live(attempts[n])
                   after == live(attempts'[n])
               IN Len(after) >= Len(before)
                  /\ SubSeq(after, 1, Len(before)) = before]_vars

C5_Witness ==
    /\ ret.op = "authenticate"
    /\ ret.errors = <<"Account is disabled">>
    /\ recorded[ret.name] # <<>>
    /\ attempts[ret.name] # <<>>

(* C6: the result of authenticate is that of the first failing check in the  *)
(* order rate limit, user lookup, is_active, password, MFA, and a token is   *)
(* returned only when no check fails.                                        *)
C6_FirstFailingCheck ==
    [][ret'.op = "authenticate" =>
        \A p \in {GoodPass, OtherPass}, c \in {None, WrongCode} \cup Secrets :
          LET n == ret'.name
              found == {u \in users : u.username = n}
              u == CHOOSE x \in found : TRUE
              blocked == Cardinality({i \in DOMAIN recorded[n] :
                            LocalNow < recorded[n][i] + window_seconds * TicksPerSec})
                         >= max_attempts
              expected ==
                  IF blocked THEN "Too many login attempts"
                  ELSE IF found = {} THEN "Invalid username or password"
                  ELSE IF ~u.is_active THEN "Account is disabled"
                  ELSE IF u.password_hash # <<"bcrypt", p>>
                       THEN "Invalid username or password"
                  ELSE IF u.mfa_enabled /\ c = None THEN "MFA code required"
                  ELSE IF u.mfa_enabled /\ c # u.mfa_secret THEN "Invalid MFA code"
                  ELSE "none"
          IN authenticate(n, p, c) =>
                /\ expected # "none" =>
                      ret'.errors = <<expected>> /\ ret'.token = NoToken /\ ~ret'.ok
                /\ ret'.token # NoToken => expected = "none"]_vars

C6_Witness ==
    /\ ret.op = "authenticate"
    /\ ret.errors = <<"Account is disabled">>
    /\ \E u \in users : u.username = ret.name /\ ~u.is_active /\ u.mfa_enabled

(* C7: for an active, unblocked user with mfa_enabled, authenticate with the *)
(* right password and no MFA code returns the MFA-required result with the   *)
(* user id, no token, and changes neither the sessions, nor the limiter list *)
(* beyond dropping expired entries, nor the users rows, and writes no audit  *)
(* row.                                                                      *)
C7_MfaRequiredChangesNothing ==
    [][ret'.op = "authenticate" =>
        \A p \in {GoodPass, OtherPass}, u \in users :
          LET n == ret'.name IN
             (/\ u.username = n /\ u.is_active /\ u.mfa_enabled
              /\ u.password_hash = <<"bcrypt", p>>
              /\ authenticate(n, p, None)
              /\ Cardinality({i \in DOMAIN recorded[n] :
                     LocalNow < recorded[n][i] + window_seconds * TicksPerSec})
                 < max_attempts)
             => /\ ret'.data.kind = "requires_mfa" /\ ret'.data.id = u.id
                /\ ret'.token = NoToken /\ ~ret'.ok
                /\ sessions' = sessions
                /\ attempts'[n] = SelectSeq(attempts[n], LAMBDA a :
                       LocalNow < a + window_seconds * TicksPerSec)
                /\ recorded' = recorded
                /\ users' = users
                /\ audited' = <<>>]_vars

C7_Witness ==
    /\ ret.op = "authenticate"
    /\ ret.data.kind = "requires_mfa"
    /\ attempts[ret.name] # <<>>
    /\ \E u \in users : u.id = ret.data.id /\ u.failed_login_attempts > 0

----------------------------------------------------------------------------
(* Properties of the session rows, the audit trail and MFA enrollment        *)

(* C11: every session row has expires_at = created_at + ttl, ttl being the   *)
(* configured jwt_expiry; the two columns are compared at the one-second     *)
(* resolution in which created_at is stored.                                 *)
C11_ExpiryIsCreationPlusTtl ==
    \A s \in sessions : Sec(s.expires_at) = s.created_at + jwt_expiry

(* C12: an authenticate call that fails because the username is unknown and  *)
(* one that fails because the password is wrong return the same result to    *)
(* the caller (failure, no token, no user data, the same message) and both   *)
(* record one failure in the limiter; the audit row tells them apart.        *)
C12_UnknownUserLooksLikeWrongPassword ==
    [][ret'.op = "authenticate" =>
        \A p \in {GoodPass, OtherPass}, c \in {None, WrongCode} \cup Secrets :
          LET n == ret'.name
              found == {u \in users : u.username = n}
              u == CHOOSE x \in found : TRUE
              live == SelectSeq(attempts[n], LAMBDA a :
                          LocalNow < a + window_seconds * TicksPerSec)
              unknown == found = {}
              wrong == found # {} /\ u.is_active /\ u.password_hash # <<"bcrypt", p>>
          IN (/\ Len(live) < max_attempts
              /\ unknown \/ wrong
              /\ authenticate(n, p, c))
             => /\ <<ret'.ok, ret'.token, ret'.data, ret'.errors>>
                     = <<FALSE, NoToken, NoData, <<"Invalid username or password">>>>
                /\ attempts'[n] = Append(live, LocalNow)
                /\ audited' = <<[user_id |-> IF unknown THEN 0 ELSE u.id,
                                 username |-> n, action |-> "login_failed",
                                 status |-> IF unknown THEN "invalid_credentials"
                                            ELSE "invalid_password"]>>]_vars

C12_Witness ==
    /\ ret.op = "authenticate"
    /\ ret.errors = <<"Invalid username or password">>
    /\ Len(audited) = 1 /\ audited[1].status = "invalid_password"
    /\ \E u \in users : u.username = ret.name /\ u.is_active

(* C13: every failure of verify_token returns the same error to the caller:  *)
(* any two tokens that are both rejected are rejected with the same message, *)
(* whatever made them fail (signature, expiry, session, user).               *)
C13_VerifyFailuresAreUniform ==
    \A t1, t2 \in HeldTokens :
        (verify_errors(t1) # <<>> /\ verify_errors(t2) # <<>>)
            => verify_errors(t1) = verify_errors(t2)

C15_OneAuditRowPerBranch ==
    (/\ ret.op \in {"verify_token", "change_password", "enable_mfa",
                    "verify_and_enable_mfa", "disable_mfa"}
     /\ ~(/\ ret.op = "change_password" /\ ~ret.ok
          /\ ret.errors \notin {<<"User not found">>,
                                <<"Current password is incorrect">>}))
        => Len(audited) = 1

(* C16: an authenticate call that reaches the is_active check of a disabled  *)
(* account (the username is not rate-limited) returns the account-disabled   *)
(* error with no token, appends the audit row login_failed/account_disabled, *)
(* records no failure in the limiter and leaves the users rows, with their   *)
(* failed_login_attempts, unchanged, whether the password is right or wrong. *)
C16_DisabledAccountIsRefused ==
    [][ret'.op = "authenticate" =>
        \A u \in users :
          LET n == ret'.name
              live == SelectSeq(attempts[n], LAMBDA a :
                          LocalNow < a + window_seconds * TicksPerSec)
          IN (u.username = n /\ ~u.is_active /\ Len(live) < max_attempts)
             => /\ ret'.errors = <<"Account is disabled">>
                /\ ~ret'.ok /\ ret'.token = NoToken
                /\ audited' = <<[user_id |-> u.id, username |-> n,
                                 action |-> "login_failed",
                                 status |-> "account_disabled"]>>
                /\ attempts'[n] = live
                /\ recorded' = recorded
                /\ users' = users
                /\ sessions' = sessions]_vars

C16_Witness ==
    /\ ret.op = "authenticate"
    /\ ret.errors = <<"Account is disabled">>
    /\ Len(audited) = 1 /\ audited[1].status = "account_disabled"
    /\ \E u \in users : u.username = ret.name /\ ~u.is_active
                        /\ u.failed_login_attempts > 0

(* C17: a user's failed_login_attempts grows by exactly one in an            *)
(* authenticate call that fails at the password check, becomes 0 in an       *)
(* authenticate call that returns a token, and is left as it was by every    *)
(* other step.                                                               *)
C17_FailedLoginCounter ==
    [][\A u \in users, v \in users' :
          u.id = v.id =>
            LET mine == ret'.op = "authenticate" /\ ret'.name = u.username IN
            v.failed_login_attempts =
                IF mine /\ ret'.errors = <<"Invalid username or password">>
                THEN u.failed_login_attempts + 1
                ELSE IF mine /\ ret'.ok THEN 0
                ELSE u.failed_login_attempts]_vars

(* C18: in the state reached when enable_mfa returns success the user's      *)
(* mfa_enabled is false, whatever the user's state was before the call,      *)
(* completed enrollment included.                                            *)
C18_EnableMfaOnlyStoresPendingSecret ==
    (ret.op = "enable_mfa" /\ ret.ok)
        => \A u \in users : u.id = ret.uid => ~u.mfa_enabled

(* C19: a user's mfa_enabled goes from false to true only in a               *)
(* verify_and_enable_mfa call for that user whose code is valid for the      *)
(* secret stored for the user; a call with any other code, or for a user     *)
(* with no stored secret, fails and leaves the users rows unchanged.         *)
C19_MfaEnabledOnlyByVerifiedCode ==
    [][\A u \in users :
          /\ \A v \in users' :
                (u.id = v.id /\ ~u.mfa_enabled /\ v.mfa_enabled)
                    => /\ u.mfa_secret # None
                       /\ verify_and_enable_mfa(u.id, u.mfa_secret)
                       /\ ret'.ok
          /\ \A c \in {WrongCode} \cup MfaSecrets :
                (verify_and_enable_mfa(u.id, c)
                 /\ (u.mfa_secret = None \/ c # u.mfa_secret))
                    => ~ret'.ok /\ users' = users]_vars

C19_Witness ==
    /\ ret.op = "verify_and_enable_mfa" /\ ret.ok
    /\ \E u \in users : u.id = ret.uid /\ u.mfa_enabled /\ u.mfa_secret \in MfaSecrets
    /\ Len(audited) = 1 /\ audited[1].action = "mfa_enabled"

----------------------------------------------------------------------------
(* Properties of revocation, the sweep, roles and password change            *)

(* C22: logout reports success and leaves no session with the token; when    *)
(* the token has no session (logged out before, swept, or never issued) the  *)
(* call changes nothing, so a second logout leaves the state of the first.   *)
C22_LogoutIsIdempotent ==
    [][ret'.op = "logout" =>
        LET t == ret'.token IN
        /\ ret'.ok
        /\ \A s \in sessions' : s.token # t
        /\ (\A s \in sessions : s.token # t)
              => /\ sessions' = sessions /\ users' = users
                 /\ attempts' = attempts /\ revoked' = revoked
                 /\ audited' = <<>>]_vars

C22_Witness ==
    /\ ret.op = "logout" /\ ret.ok
    /\ ret.token \notin revoked /\ ret.token # BadToken
    /\ sessions # {}

(* Two accounts side by side: both can log in, and each one's sessions can   *)
(* be ended as a whole                                                       *)
MaxAccountsTime == 2

NextAccounts ==
    \/ clock < MaxAccountsTime /\ Tick
    \/ \E n \in Usernames : create_user(n, GoodPass, "user")
    \/ \E n \in Usernames : authenticate(n, GoodPass, None)
    \/ \E id \in ExistingIds : logout_all_sessions(id)

SpecAccounts == Init /\ [][NextAccounts]_vars

(* C23: when logout_all_sessions(user) returns, no session of that user is   *)
(* left, every token that had been issued to the user is rejected by         *)
(* verify_token, and the sessions of all other users are the ones that were  *)
(* there before the call.                                                    *)
C23_LogoutAllEndsOnlyThatUser ==
    [][ret'.op = "logout_all_sessions" =>
        LET id == ret'.uid IN
        /\ ret'.ok
        /\ sessions' = {s \in sessions : s.user_id # id}
        /\ \A s \in sessions' : s.user_id # id
        /\ \A t \in HeldTokens : t.user_id = id => verify_errors(t)' # <<>>]_vars

C23_Witness ==
    /\ ret.op = "logout_all_sessions"
    /\ \E t \in revoked : t.user_id = ret.uid
    /\ \E s \in sessions : s.user_id # ret.uid /\ verify_errors(s.token) = <<>>

(* C24: cleanup_expired_sessions removes exactly the sessions whose          *)
(* expires_at is at or before the current instant, keeps the ones whose      *)
(* expires_at is later, and returns the number of rows it removed.           *)
C24_SweepRemovesExactlyTheExpired ==
    [][ret'.op = "cleanup_expired_sessions" =>
        /\ sessions' = {s \in sessions : s.expires_at > LocalNow}
        /\ ret'.seconds = Cardinality(sessions \ sessions')]_vars

----------------------------------------------------------------------------
(* Authorization: check_permission compares ROLES.get(role, 0) of the user   *)
(* with ROLES.get(required_role, 0)                                          *)

RoleLevel(role) == IF role \in DOMAIN ROLES THEN ROLES[role] ELSE 0

check_permission_strict(user, required_role) ==
    RoleLevel(user.role) > RoleLevel(required_role)

check_permission(user, required_role) ==
    RoleLevel(user.role) >= RoleLevel(required_role)

RoleInputs == DOMAIN ROLES \cup {"root", ""}

do_check_permission(u, required_role) ==
    /\ ret' = Ret("check_permission", required_role, u.id,
                  check_permission(UserData("user", u), required_role),
                  NoToken, UserData("user", u), <<>>, -1, FALSE)
    /\ audited' = <<>>
    /\ UNCHANGED <<users, sessions>>
    /\ Frame

NextRoles ==
    \/ \E r \in RoleInputs : create_user("alice", GoodPass, r)
    \/ \E id \in ExistingIds, r \in RoleInputs : update_user(id, <<r>>, <<>>)
    \/ \E u \in users, r \in RoleInputs : do_check_permission(u, r)

SpecRoles == Init /\ [][NextRoles]_vars

C26_Ordinal == [viewer |-> 1, user |-> 2, moderator |-> 3, admin |-> 4]

(* C26: for a user with a known role and a known required role,              *)
(* check_permission grants exactly when ordinal(user role) >=                *)
(* ordinal(required) with viewer=1, user=2, moderator=3, admin=4: admin      *)
(* passes every required role, viewer passes only viewer, and a grant stays  *)
(* a grant for every higher user role.                                       *)
C26_PermissionIsOrdinal ==
    (/\ ret.op = "check_permission"
     /\ ret.data.role \in DOMAIN C26_Ordinal
     /\ ret.name \in DOMAIN C26_Ordinal)
    => /\ ret.ok <=> C26_Ordinal[ret.data.role] >= C26_Ordinal[ret.name]
       /\ ret.data.role = "admin" => ret.ok
       /\ ret.data.role = "viewer" => (ret.ok <=> ret.name = "viewer")
       /\ ret.ok => \A r \in DOMAIN C26_Ordinal :
                       C26_Ordinal[r] >= C26_Ordinal[ret.data.role]
                          => check_permission([ret.data EXCEPT !.role = r], ret.name)

C26_Witness ==
    /\ ret.op = "check_permission" /\ ret.ok
    /\ ret.data.role = "moderator" /\ ret.name = "moderator"

(* C27: check_permission denies every user whose role is not one of the four *)
(* known roles, whatever required_role is passed.                            *)
C27_UnknownRoleIsDenied ==
    (ret.op = "check_permission" /\ ret.data.role \notin DOMAIN ROLES) => ~ret.ok

(* C29: after any sequence of create_user and update_user calls, whatever   *)
(* role values they carried, every stored user's role is one of viewer,      *)
(* user, moderator, admin.                                                   *)
C29_RoleIsOneOfFour ==
    \A u \in users : u.role \in DOMAIN ROLES

----------------------------------------------------------------------------
(* Changing the password and logging in with the old and the new one         *)

Passwords == {GoodPass, OtherPass, WeakPass}

NextPassword ==
    \/ clock < MaxAccountsTime /\ Tick
    \/ create_user("alice", GoodPass, "user")
    \/ \E id \in ExistingIds, old \in Passwords, new \in Passwords :
          change_password(id, old, new)
    \/ \E p \in {GoodPass, OtherPass} : authenticate("alice", p, None)

SpecPassword == Init /\ [][NextPassword]_vars

(* C28: change_password with a wrong old password leaves the stored hash     *)
(* unchanged and appends one password_change_failed audit row; with the      *)
(* right old password and a new one that violates the policy it leaves the   *)
(* hash unchanged and appends no audit row; with the right old password and  *)
(* a valid new one it replaces the hash and appends password_changed, and    *)
(* from then on a login of that (active, not rate limited, MFA-less) user    *)
(* succeeds with the new password and fails with the old one.                *)
C28_ChangePassword ==
    [][\A id \in ExistingIds, old \in Passwords, new \in Passwords :
        (ret'.op = "change_password" /\ change_password(id, old, new)) =>
            LET user == CHOOSE u \in UserById(id) : TRUE
                after == CHOOSE u \in UserById(id)' : TRUE
                name == user.username
            IN
            IF ~checkpw(old, user.password_hash) THEN
                /\ after.password_hash = user.password_hash
                /\ Len(audited') = 1
                /\ audited'[1].action = "password_change_failed"
            ELSE IF validate(new) # <<>> THEN
                /\ after.password_hash = user.password_hash
                /\ audited' = <<>>
            ELSE
                /\ checkpw(new, after.password_hash)
                /\ Len(audited') = 1
                /\ audited'[1].action = "password_changed"
                /\ ~is_rate_limited(name).limited' =>
                      /\ auth_outcome(name, new, None)' = "success"
                      /\ old # new => auth_outcome(name, old, None)' # "success"]_vars

----------------------------------------------------------------------------
(* Calls running side by side.  Every call opens its own connection and      *)
(* commits each statement on its own, so another call can run between the    *)
(* statement that reads a row and the statement that writes it back.  A call *)
(* that has read and not yet written is a record in inflight.                *)

MaxInflight == 1

Call(op, uid, name, token, found) ==
    [op |-> op, uid |-> uid, name |-> name, token |-> token, found |-> found]

(* verify_and_enable_mfa up to its UPDATE: get_user_by_id_with_hash and the  *)
(* test of the code; a call that fails either test returns at once           *)
verify_and_enable_mfa_read(user_id, mfa_code) ==
    LET found == UserById(user_id) IN
    IF \E u \in found : u.mfa_secret # None
                        /\ _verify_mfa_code(u.mfa_secret, mfa_code)
    THEN /\ Cardinality(inflight) < MaxInflight
         /\ inflight' = inflight \cup
                {Call("verify_and_enable_mfa", user_id,
                      (CHOOSE u \in found : TRUE).username, NoToken, found)}
         /\ UNCHANGED <<clock, tz, legacy_users, users, next_user_id, sessions,
                        next_session_id, attempts, audited, ret, revoked, recorded>>
    ELSE verify_and_enable_mfa(user_id, mfa_code)

(* the rest of the call: UPDATE users SET mfa_enabled = 1 WHERE id = ?, then *)
(* the audit row                                                             *)
verify_and_enable_mfa_write(call) ==
    /\ call.op = "verify_and_enable_mfa"
    /\ inflight' = inflight \ {call}
    /\ users' = {[u EXCEPT !.mfa_enabled = IF u.id = call.uid THEN TRUE ELSE @] :
                    u \in users}
    /\ audited' = _log_audit(users, call.uid, call.name, "mfa_enabled", "success")
    /\ ret' = MfaRet("verify_and_enable_mfa", call.uid, TRUE, <<>>)
    /\ UNCHANGED <<clock, tz, legacy_users, next_user_id, sessions,
                   next_session_id, attempts, revoked, recorded>>

NextMfaRace ==
    \/ create_user("alice", GoodPass, "user")
    \/ \E id \in ExistingIds, sec \in MfaSecrets : enable_mfa(id, sec)
    \/ \E id \in ExistingIds, c \in {WrongCode} \cup MfaSecrets :
          verify_and_enable_mfa_read(id, c)
    \/ \E call \in inflight : verify_and_enable_mfa_write(call)
    \/ \E id \in ExistingIds, p \in {GoodPass, OtherPass} : disable_mfa(id, p)

SpecMfaRace == Init /\ [][NextMfaRace]_vars

(* C21: in every reachable state, also when enable_mfa,                      *)
(* verify_and_enable_mfa and disable_mfa calls on one user run side by side, *)
(* a user with mfa_enabled set has an mfa_secret.                            *)
C21_MfaEnabledHasSecret ==
    \A u \in users : u.mfa_enabled => u.mfa_secret # None

(* verify_token up to its session lookup: jwt.decode and                     *)
(* _get_session_by_token; a call that fails either returns at once           *)
verify_token_lookup(token) ==
    IF jwt_decode(token) = "ok" /\ _get_session_by_token(token) # {}
    THEN /\ Cardinality(inflight) < MaxInflight
         /\ inflight' = inflight \cup
                {Call("verify_token", token.user_id, None, token,
                      _get_session_by_token(token))}
         /\ UNCHANGED <<clock, tz, legacy_users, users, next_user_id, sessions,
                        next_session_id, attempts, audited, ret, revoked, recorded>>
    ELSE verify_token(token)

(* the rest of the call: UPDATE sessions SET last_activity WHERE id = ? for  *)
(* the row that was found, then get_user and the result                      *)
verify_token_finish(call) ==
    LET user == UserById(call.uid)
        errors == IF user = {} \/ \E u \in user : ~u.is_active
                  THEN <<"User not found or inactive">> ELSE <<>>
    IN
    /\ call.op = "verify_token"
    /\ inflight' = inflight \ {call}
    /\ sessions' = {IF \E f \in call.found : f.id = s.id
                    THEN [s EXCEPT !.last_activity = DbNow] ELSE s : s \in sessions}
    /\ ret' = Ret("verify_token", None, call.uid, errors = <<>>, call.token,
                  IF errors = <<>>
                  THEN UserData("user", CHOOSE u \in user : TRUE) ELSE NoData,
                  errors, -1, FALSE)
    /\ audited' = <<>>
    /\ UNCHANGED <<clock, tz, legacy_users, users, next_user_id,
                   next_session_id, attempts, revoked, recorded>>

NextSweepRace ==
    \/ Tick
    \/ create_user("alice", GoodPass, "user")
    \/ authenticate("alice", GoodPass, None)
    \/ \E t \in HeldTokens : verify_token_lookup(t)
    \/ \E call \in inflight : verify_token_finish(call)
    \/ cleanup_expired_sessions

SpecSweepRace == Init /\ [][NextSweepRace]_vars

(* C25: the sweep runs safely beside verify_token.  A sweep removes no       *)
(* session that the session lookup accepts at that instant or at any later   *)
(* one, so it leaves the result of verify_token unchanged for every token;   *)
(* and a verify_token that had found its session before the sweep ran        *)
(* returns what it returns when the row is still there: success exactly      *)
(* when the user exists and is active.                                       *)
C25_SweepIsSafeBesideVerify ==
    [][/\ ret'.op = "cleanup_expired_sessions" =>
            /\ \A s \in sessions \ sessions' : \A c \in clock..MaxTime :
                  ~TextGT(s.expires_at, Sec(c))
            /\ \A t \in HeldTokens \cup {call.token : call \in inflight} :
                  verify_errors(t)' = verify_errors(t)
       /\ ret'.op = "verify_token" =>
            \A call \in inflight \ inflight' :
                ret'.ok <=> \E u \in users : u.id = call.token.user_id /\ u.is_active
      ]_vars

C25_Witness ==
    /\ ret.op = "verify_token" /\ ret.ok
    /\ \A s \in sessions : s.token # ret.token

(* authenticate up to the point where every check has passed: the rate       *)
(* limiter test, the read of the user row, the password and MFA tests; a     *)
(* call that fails a check returns at once                                   *)
authenticate_read(username, password, mfa_code) ==
    IF auth_outcome(username, password, mfa_code) = "success"
    THEN /\ Cardinality(inflight) < MaxInflight
         /\ inflight' = inflight \cup
                {Call("authenticate", (CHOOSE u \in UserByName(username) : TRUE).id,
                      username, NoToken, UserByName(username))}
         /\ attempts' = [attempts EXCEPT ![username] = is_rate_limited(username).kept]
         /\ UNCHANGED <<clock, tz, legacy_users, users, next_user_id, sessions,
                        next_session_id, audited, ret, revoked, recorded>>
    ELSE authenticate(username, password, mfa_code)

(* the rest of the call, with the user row as it was read: limiter reset,    *)
(* UPDATEs of the user by id, the token, the session INSERT, the audit row   *)
authenticate_write(call) ==
    LET user == CHOOSE u \in call.found : TRUE
        token == _generate_jwt(user.id, user.username, user.role)
    IN
    /\ call.op = "authenticate"
    /\ SessionInserted(token) => next_session_id <= MaxSessions
    /\ inflight' = inflight \ {call}
    /\ attempts' = [attempts EXCEPT ![call.name] = reset(@)]
    /\ recorded' = [recorded EXCEPT ![call.name] = <<>>]
    /\ users' = {[u EXCEPT !.failed_login_attempts = IF u.id = user.id THEN 0 ELSE @] :
                    u \in users}
    /\ sessions' = _create_session(user.id, token)
    /\ next_session_id' = IF SessionInserted(token) THEN next_session_id + 1
                          ELSE next_session_id
    /\ audited' = _log_audit(users', user.id, call.name, "login_success", "success")
    /\ ret' = Ret("authenticate", call.name, user.id, TRUE, token,
                  UserData("user", user), <<>>, -1, FALSE)
    /\ UNCHANGED <<clock, tz, legacy_users, next_user_id, revoked>>

NextDeleteRace ==
    \/ clock < MaxAccountsTime /\ Tick
    \/ create_user("alice", GoodPass, "user")
    \/ authenticate_read("alice", GoodPass, None)
    \/ \E call \in inflight : authenticate_write(call)
    \/ \E id \in ExistingIds : delete_user(id)
    \/ \E t \in HeldTokens \cup {ret.token} : verify_token(t)

SpecDeleteRace == Init /\ [][NextDeleteRace]_vars

(* every token that can have been issued so far: any user id handed out, any *)
(* second up to now                                                          *)
C30_IssuedTokens ==
    {[_generate_jwt(id, n, "user") EXCEPT !.iat = i, !.exp = i + jwt_expiry] :
        id \in 1..(next_user_id - 1), n \in {"alice"}, i \in 0..Sec(clock)}

(* C30: every session row references an existing user, also when delete_user *)
(* runs between the checks and the session INSERT of a login of that user;   *)
(* no session of a deleted user is left, and verify_token rejects every      *)
(* token issued to a deleted user, the one returned by that login included.  *)
C30_SessionsReferenceUsers ==
    /\ \A s \in sessions : \E u \in users : u.id = s.user_id
    /\ \A t \in C30_IssuedTokens \cup {ret.token} :
          (t.user_id # 0 /\ UserById(t.user_id) = {})
             => /\ verify_errors(t) # <<>>
                /\ _get_session_by_token(t) = {}

C30_Witness ==
    /\ ret.op = "authenticate" /\ ret.ok
    /\ UserById(ret.uid) = {}
    /\ verify_errors(ret.token) # <<>>

----------------------------------------------------------------------------
(* Store failures.  Every store call of AuthService is wrapped in            *)
(* try/except: the exception (database locked, disk error) is logged and the *)
(* call goes on with None or with nothing written.                          *)

(* authenticate when the SELECT of get_user_by_username raises: the helper   *)
(* returns None and authenticate takes the branch of an unknown user; the    *)
(* INSERT of the audit row may fail with the store or go through            *)
authenticate_lookup_fails(username, audit_written) ==
    LET rl == is_rate_limited(username)
        pruned == [attempts EXCEPT ![username] = rl.kept]
    IN
    /\ ~rl.limited
    /\ attempts' = [pruned EXCEPT ![username] = record_attempt(@)]
    /\ recorded' = [recorded EXCEPT ![username] = record_attempt(@)]
    /\ audited' = IF audit_written
                  THEN _log_audit(users, 0, username, "login_failed",
                                  "invalid_credentials")
                  ELSE <<>>
    /\ ret' = Ret("authenticate", username, 0, FALSE, NoToken, NoData,
                  <<"Invalid username or password">>, -1, FALSE)
    /\ UNCHANGED <<clock, tz, legacy_users, inflight, users, next_user_id,
                   sessions, next_session_id, revoked>>

(* authenticate when every check passes and the INSERT of _create_session    *)
(* raises: the exception is swallowed there and the login goes on            *)
authenticate_insert_fails(username, password, mfa_code) ==
    LET rl == is_rate_limited(username)
        pruned == [attempts EXCEPT ![username] = rl.kept]
        user == CHOOSE u \in UserByName(username) : TRUE
        token == _generate_jwt(user.id, user.username, user.role)
    IN
    /\ auth_outcome(username, password, mfa_code) = "success"
    /\ attempts' = [pruned EXCEPT ![username] = reset(@)]
    /\ recorded' = [recorded EXCEPT ![username] = <<>>]
    /\ users' = _reset_failed_logins(user)
    /\ audited' = _log_audit(users', user.id, username, "login_success", "success")
    /\ ret' = Ret("authenticate", username, user.id, TRUE, token,
                  UserData("user", user), <<>>, -1, FALSE)
    /\ UNCHANGED <<clock, tz, legacy_users, inflight, next_user_id, sessions,
                   next_session_id, revoked>>

NextStore ==
    \/ clock < MaxAccountsTime /\ Tick
    \/ create_user("alice", GoodPass, "user")
    \/ \E p \in {GoodPass, OtherPass} : authenticate("alice", p, None)
    \/ \E b \in BOOLEAN : authenticate_lookup_fails("alice", b)
    \/ authenticate_insert_fails("alice", GoodPass, None)
    \/ \E t \in HeldTokens \cup {ret.token} : verify_token(t)

SpecStore == Init /\ [][NextStore]_vars

(* C31: a store failure inside authenticate reaches the caller as a store    *)
(* error: when the lookup of an existing user fails the call does not answer *)
(* "Invalid username or password" and records no rate-limit failure, and     *)
(* when the session insert fails the call does not report a successful       *)
(* login.                                                                    *)
C31_StoreFailureIsReported ==
    [][ret'.op = "authenticate" =>
        LET n == ret'.name IN
        /\ (UserByName(n) # {} /\ \E b \in BOOLEAN : authenticate_lookup_fails(n, b))
              => /\ ret'.errors # <<"Invalid username or password">>
                 /\ attempts'[n] = is_rate_limited(n).kept
        /\ authenticate_insert_fails(n, GoodPass, None) => ~ret'.ok]_vars

----------------------------------------------------------------------------
(* PasswordPolicy.validate on its own *)

(* passwords with every combination of character classes, one character     *)
(* short of MIN_LENGTH and exactly MIN_LENGTH long; the blank belongs to no  *)
(* class                                                                    *)
ClassChars(classes) ==
    (IF "upper" \in classes THEN <<"S">> ELSE <<>>)
    \o (IF "lower" \in classes THEN <<"e">> ELSE <<>>)
    \o (IF "digit" \in classes THEN <<"1">> ELSE <<>>)
    \o (IF "special" \in classes THEN <<"!">> ELSE <<>>)

Padded(s, n) == s \o [i \in 1..(n - Len(s)) |-> " "]

PolicyInputs ==
    {Padded(ClassChars(classes), n) :
        classes \in SUBSET {"upper", "lower", "digit", "special"},
        n \in {MIN_LENGTH - 1, MIN_LENGTH}}
    \cup {GoodPass, OtherPass, WeakPass}

do_validate(p) ==
    /\ ret' = Ret("validate", p, 0, validate(p) = <<>>, NoToken, NoData,
                  validate(p), -1, FALSE)
    /\ audited' = <<>>
    /\ UNCHANGED <<users, sessions>>
    /\ Frame

NextPolicy == \E p \in PolicyInputs : do_validate(p)

SpecPolicy == Init /\ [][NextPolicy]_vars

C32_Unmet(p) ==
    (IF Len(p) >= 8 THEN {} ELSE {"length"})
    \cup (IF \E i \in 1..Len(p) : p[i] \in Upper THEN {} ELSE {"uppercase"})
    \cup (IF \E i \in 1..Len(p) : p[i] \in Lower THEN {} ELSE {"lowercase"})
    \cup (IF \E i \in 1..Len(p) : p[i] \in Digit THEN {} ELSE {"digit"})
    \cup (IF \E i \in 1..Len(p) : p[i] \in SPECIAL_CHARS THEN {} ELSE {"special"})

(* C32: validate(p) is ok exactly when p meets all five rules (length >= 8,  *)
(* an uppercase letter, a lowercase letter, a digit, a special character);   *)
(* every rule is tested whatever the others gave, each unmet rule is         *)
(* reported exactly once, and ok is true exactly when no violation is        *)
(* reported.                                                                 *)
C32_ValidateReportsEveryUnmetRule ==
    ret.op = "validate" =>
        LET p == ret.name IN
        /\ ret.ok <=> C32_Unmet(p) = {}
        /\ {ret.errors[i] : i \in 1..Len(ret.errors)} = C32_Unmet(p)
        /\ Len(ret.errors) = Cardinality(C32_Unmet(p))
        /\ ret.ok <=> ret.errors = <<>>

C32_Witness ==
    /\ ret.op = "validate" /\ ~ret.ok
    /\ Len(ret.name) >= 8
    /\ Len(ret.errors) = 2

----------------------------------------------------------------------------
(* Failing logins of one username running side by side.  The limiter's own   *)
(* operations are serialized by its lock; between the rate-limit check of a  *)
(* call and its record_attempt other calls can run.                          *)

MaxCallers == 2

Caller(k, username, password) ==
    [op |-> "authenticate", caller |-> k, name |-> username, password |-> password]

(* authenticate up to the rate-limit check; a blocked call returns at once   *)
authenticate_check(k, username, password) ==
    IF is_rate_limited(username).limited
    THEN authenticate(username, password, None)
    ELSE /\ \A c \in inflight : c.caller # k
         /\ inflight' = inflight \cup {Caller(k, username, password)}
         /\ attempts' = [attempts EXCEPT ![username] = is_rate_limited(username).kept]
         /\ UNCHANGED <<clock, tz, legacy_users, users, next_user_id, sessions,
                        next_session_id, audited, ret, revoked, recorded>>

(* the rest of a call that fails at the user lookup or at the password:      *)
(* record_attempt, _record_failed_login, the audit row, the result           *)
authenticate_fail(call) ==
    LET outcome == credential_outcome(call.name, call.password, None)
        found == UserByName(call.name)
        uid == IF found = {} THEN 0 ELSE (CHOOSE u \in found : TRUE).id
    IN
    /\ outcome \in {"invalid_credentials", "invalid_password"}
    /\ inflight' = inflight \ {call}
    /\ attempts' = [attempts EXCEPT ![call.name] = record_attempt(@)]
    /\ recorded' = [recorded EXCEPT ![call.name] = record_attempt(@)]
    /\ users' = IF found = {} THEN users
                ELSE _record_failed_login(CHOOSE u \in found : TRUE)
    /\ audited' = _log_audit(users', uid, call.name, "login_failed", outcome)
    /\ ret' = Ret("authenticate", call.name, uid, FALSE, NoToken, NoData,
                  <<"Invalid username or password">>, -1, FALSE)
    /\ UNCHANGED <<clock, tz, legacy_users, next_user_id, sessions,
                   next_session_id, revoked>>

NextLimiterRace ==
    \/ clock < MaxAccountsTime /\ Tick
    \/ create_user("alice", GoodPass, "user")
    \/ \E k \in 1..MaxCallers : authenticate_check(k, "alice", OtherPass)
    \/ \E call \in inflight : authenticate_fail(call)

SpecLimiterRace == Init /\ [][NextLimiterRace]_vars

(* C33: with up to MaxCallers failing logins of one username in flight at a  *)
(* time and no successful login, the failures of one window that got past   *)
(* the rate-limit check, recorded or still in flight, number at most         *)
(* max_attempts + MaxCallers - 1.                                            *)
C33_OvercountIsBounded ==
    \A n \in Usernames :
        Len(SelectInWindow(attempts[n], LocalNow))
          + Cardinality({c \in inflight : c.name = n})
            <= max_attempts + MaxCallers - 1

C33_Witness ==
    /\ inflight = {}
    /\ Len(SelectInWindow(attempts["alice"], LocalNow)) = max_attempts + MaxCallers - 1
    /\ ret.op = "authenticate" /\ ~ret.ok

----------------------------------------------------------------------------
(* RateLimiter under its lock.  Each method body runs inside                 *)
(* "with self._lock"; is_rate_limited reads the list, filters it and assigns *)
(* the filtered list back, which is two steps in which the lock is held.     *)

Holding(identifier, rl) ==
    [op |-> "is_rate_limited", name |-> identifier, kept |-> rl.kept,
     limited |-> rl.limited, seconds |-> rl.seconds]

LockFree_unguarded == TRUE

(* threading.Lock: free when no call is inside a locked section *)
LockFree == inflight = {}

(* is_rate_limited: the lock is taken, now is read, the filtered list built  *)
rl_is_rate_limited_enter(identifier) ==
    /\ LockFree
    /\ inflight' = inflight \cup {Holding(identifier, is_rate_limited(identifier))}
    /\ UNCHANGED <<clock, tz, legacy_users, users, next_user_id, sessions,
                   next_session_id, attempts, audited, ret, revoked, recorded>>

(* the filtered list is assigned, the verdict returned, the lock released    *)
rl_is_rate_limited_leave(call) ==
    /\ inflight' = inflight \ {call}
    /\ attempts' = [attempts EXCEPT ![call.name] = call.kept]
    /\ ret' = RLRet("is_rate_limited", call.name, call.limited, call.seconds)
    /\ audited' = <<>>
    /\ UNCHANGED <<clock, tz, legacy_users, users, next_user_id, sessions,
                   next_session_id, revoked, recorded>>

(* record_attempt and reset: one statement each inside the lock; the store   *)
(* call of another thread (create_user) needs no lock                        *)
NextLimiterLock ==
    \/ Tick
    \/ rl_is_rate_limited_enter("alice")
    \/ \E call \in inflight : rl_is_rate_limited_leave(call)
    \/ LockFree /\ rl_record_attempt("alice")
    \/ LockFree /\ rl_reset("alice")
    \/ create_user("alice", GoodPass, "user")

SpecLimiterLock == Init /\ [][NextLimiterLock]_vars

C34_NothingLost ==
    /\ Cardinality(inflight) <= 1
    /\ \A n \in Usernames : SelectInWindow(attempts[n], LocalNow) = recorded[n]

(* C34: the limiter's operations exclude each other: in every interleaving   *)
(* of record_attempt, is_rate_limited and reset on one identifier every      *)
(* failure recorded since the last reset and still inside the window is in   *)
(* the list, at most one call is inside the lock, and a step taken inside    *)
(* the lock changes the in-memory map only, never the store.                 *)
C34_LimiterOperationsAreAtomic ==
    [][/\ C34_NothingLost
       /\ C34_NothingLost'
       /\ (inflight' # inflight \/ (inflight = {} /\ attempts' # attempts))
             => (users' = users /\ sessions' = sessions)]_vars

C34_Witness ==
    /\ inflight # {}
    /\ \E call \in inflight : Len(call.kept) < Len(attempts[call.name])
    /\ users # {}
    /\ recorded["alice"] # <<>>

----------------------------------------------------------------------------
(* Registration endpoint: the first user becomes admin without a token *)

(* list_users(limit=1)[1]: the row count of the users table; on the table    *)
(* DatabaseService created the SELECT that follows names mfa_enabled, the    *)
(* exception is swallowed and the call returns ([], 0)                       *)
list_users_total == IF legacy_users THEN 0 ELSE Cardinality(users)

Registration(k, username, password) ==
    [op |-> "register", caller |-> k, name |-> username, password |-> password]

(* register up to the role decision, for a request that carries no           *)
(* Authorization header: is_first_user is read, and only a first user goes   *)
(* on to create_user                                                         *)
register_check(k, username, password) ==
    /\ \A c \in inflight : c.caller # k
    /\ IF list_users_total = 0 THEN
           /\ inflight' = inflight \cup {Registration(k, username, password)}
           /\ UNCHANGED <<clock, tz, legacy_users, users, next_user_id, sessions,
                          next_session_id, attempts, audited, ret, revoked, recorded>>
       ELSE
           /\ ret' = Ret("register", username, 0, FALSE, NoToken, NoData,
                         <<"Admin authentication required">>, -1, FALSE)
           /\ audited' = <<>>
           /\ UNCHANGED <<clock, tz, legacy_users, inflight, users, next_user_id,
                          sessions, next_session_id, attempts, revoked, recorded>>

register_create_recount(call) ==
    /\ inflight' = inflight \ {call}
    /\ IF list_users_total = 0 THEN
           create_user_call(call.name, call.password, "admin")
       ELSE
           /\ ret' = Ret("register", call.name, 0, FALSE, NoToken, NoData,
                         <<"Admin authentication required">>, -1, FALSE)
           /\ audited' = <<>>
           /\ UNCHANGED <<clock, tz, legacy_users, users, next_user_id,
                          sessions, next_session_id, attempts, revoked, recorded>>

(* the rest of register for a first user: role = 'admin', create_user        *)
register_create(call) ==
    /\ inflight' = inflight \ {call}
    /\ create_user_call(call.name, call.password, "admin")

NextRegister ==
    \/ Tick
    \/ \E k \in 1..MaxCallers, n \in Usernames : register_check(k, n, GoodPass)
    \/ \E call \in inflight : register_create(call)

SpecRegister == Init /\ [][NextRegister]_vars

(* C35: the count check and the insert of register are two steps: a request  *)
(* without any token that observed a user count of zero is created with role *)
(* admin whenever its username is still free, whatever the table holds by    *)
(* the time of its insert, so two concurrent first registrations both become *)
(* admin.                                                                    *)
C35_BootstrapCheckIsNotAtomic ==
    [][\A call \in inflight :
          (call \notin inflight' /\ UserByName(call.name) = {})
             => /\ ret'.ok
                /\ \E u \in users' \ users :
                      u.username = call.name /\ u.role = "admin"]_vars

C35_Witness ==
    /\ ~legacy_users
    /\ inflight = {}
    /\ Cardinality({u \in users : u.role = "admin"}) = 2
    /\ ret.op = "create_user" /\ ret.ok

----------------------------------------------------------------------------
(* Blocked logins (SpecLimiterRace): what a username that is blocked is told *)
(* and when the block ends                                                   *)

C36_Counted(n) == SelectInWindow(attempts[n], LocalNow)

C36_Blocked(n) == is_rate_limited(n).limited

C36_RetryAfter(n) == is_rate_limited(n).seconds

(* a rate-limited authenticate call leaves the counted failures as they were *)
C36_BlockedRecordsNothing(n) ==
    (ret'.op = "authenticate" /\ ret'.name = n
     /\ ret'.errors = <<"Too many login attempts">>)
       => /\ attempts'[n] = C36_Counted(n)
          /\ recorded' = recorded

(* a step that records no failure ends the block exactly when the oldest     *)
(* counted failure is outside the window after it                            *)
C36_EndsWithOldest(n) ==
    (C36_Blocked(n) /\ Len(attempts'[n]) <= Len(attempts[n]))
       => (C36_Blocked(n)' <=> SeqMin(C36_Counted(n)) > clock' + tz' - Window)

C36_RetryAfterFalls(n) ==
    (C36_Blocked(n) /\ C36_Blocked(n)') => C36_RetryAfter(n)' <= C36_RetryAfter(n)

(* C36 as stated: an attempt rejected at the rate-limit check records no     *)
(* failure; with no further recorded failure a blocked username is unblocked *)
(* exactly when its oldest counted failure leaves the window; the            *)
(* retry-after told to a blocked username never increases from one step to  *)
(* the next.                                                                 *)
C36_BlockIsNotExtended ==
    [][\A n \in Usernames :
          /\ C36_BlockedRecordsNothing(n)
          /\ C36_EndsWithOldest(n)
          /\ C36_RetryAfterFalls(n)]_vars

(* C36, amended: the same for a username that is blocked by exactly          *)
(* max_attempts counted failures, which is every block that no concurrent    *)
(* call has overcounted.                                                     *)
C36_BlockIsNotExtendedWithoutOvercount ==
    [][\A n \in Usernames :
          /\ C36_BlockedRecordsNothing(n)
          /\ Len(C36_Counted(n)) = max_attempts
                => (C36_EndsWithOldest(n) /\ C36_RetryAfterFalls(n))]_vars

C36_Witness ==
    /\ ret.op = "authenticate"
    /\ ret.errors = <<"Too many login attempts">>
    /\ Len(C36_Counted(ret.name)) = max_attempts
    /\ SeqMin(C36_Counted(ret.name)) < LocalNow
    /\ recorded[ret.name] = C36_Counted(ret.name)

----------------------------------------------------------------------------
(* Access control on a request: the decorators verify the bearer token and   *)
(* check the role of the user record that verify_token returned, while an    *)
(* administrator changes that user's role or activation                      *)

(* require_role(required_role) around require_auth: 401 when the token does  *)
(* not verify, 403 when check_permission refuses the verified user           *)
require_role(token, required_role) ==
    LET errors == verify_errors(token)
        user == UserData("user", CHOOSE u \in UserById(token.user_id) : TRUE)
    IN
    /\ ret' = IF errors # <<>>
              THEN Ret("require_role", required_role, token.user_id, FALSE, token,
                       NoData, <<"Invalid or expired token">>, -1, FALSE)
              ELSE IF ~check_permission(user, required_role)
              THEN Ret("require_role", required_role, token.user_id, FALSE, token,
                       user, <<"Insufficient permissions">>, -1, FALSE)
              ELSE Ret("require_role", required_role, token.user_id, TRUE, token,
                       user, <<>>, -1, FALSE)
    /\ sessions' = IF jwt_decode(token) = "ok"
                   THEN _update_session_activity(_get_session_by_token(token))
                   ELSE sessions
    /\ audited' = <<>>
    /\ UNCHANGED <<clock, tz, legacy_users, inflight, users, next_user_id,
                   next_session_id, attempts, revoked, recorded>>

AccessRoles == {"user", "admin"}

NextAccess ==
    \/ clock < MaxAccountsTime /\ Tick
    \/ \E r \in AccessRoles : create_user("alice", GoodPass, r)
    \/ authenticate("alice", GoodPass, None)
    \/ \E id \in ExistingIds, a \in BOOLEAN : update_user(id, <<>>, <<a>>)
    \/ \E id \in ExistingIds, r \in AccessRoles : update_user(id, <<r>>, <<>>)
    \/ \E t \in HeldTokens : verify_token(t)
    \/ \E t \in HeldTokens, r \in AccessRoles : require_role(t, r)

SpecAccess == Init /\ [][NextAccess]_vars

C37_Inactive(token) == \E u \in users : u.id = token.user_id /\ ~u.is_active

(* C37: verify_token never succeeds for a user whose is_active is false,     *)
(* whether or not the token's session is live; update_user leaves the        *)
(* sessions as they are; and when update_user re-activates a user, every     *)
(* token of that user whose signature is unexpired and whose session is live *)
(* is refused before the call and verifies after it.                         *)
C37_InactiveUserNeverVerifies ==
    [][/\ (ret'.op = "verify_token" /\ C37_Inactive(ret'.token)) => ~ret'.ok
       /\ ret'.op = "update_user" =>
             /\ sessions' = sessions
             /\ \A s \in sessions :
                   (/\ C37_Inactive(s.token)
                    /\ ~C37_Inactive(s.token)'
                    /\ jwt_decode(s.token) = "ok"
                    /\ _get_session_by_token(s.token) # {})
                      => /\ verify_errors(s.token) = <<"User not found or inactive">>
                         /\ verify_errors(s.token)' = <<>>]_vars

C37_Witness ==
    /\ ret.op = "verify_token"
    /\ ~ret.ok
    /\ ret.errors = <<"User not found or inactive">>
    /\ C37_Inactive(ret.token)
    /\ _get_session_by_token(ret.token) # {}

C38_Stored(token) == CHOOSE u \in UserById(token.user_id) : TRUE

(* C38: a successful verify_token returns the role stored for the user at    *)
(* the time of the call, whatever role the token was issued with, and the    *)
(* role check of a request grants exactly when that stored role reaches the  *)
(* required one: a token issued before a role change is judged by the new    *)
(* role.                                                                     *)
C38_VerifyReturnsStoredRole ==
    [][/\ (ret'.op = "verify_token" /\ ret'.ok)
             => ret'.data.role = C38_Stored(ret'.token).role
       /\ (ret'.op = "require_role" /\ verify_errors(ret'.token) = <<>>)
             => (ret'.ok <=> check_permission(C38_Stored(ret'.token), ret'.name))]_vars

C38_Witness ==
    /\ ret.op = "require_role"
    /\ ~ret.ok
    /\ ret.errors = <<"Insufficient permissions">>
    /\ ret.token.role = "admin"
    /\ ret.name = "admin"
    /\ ret.data.role = "user"

----------------------------------------------------------------------------
(* Revoking one session by its id: two accounts, their logins, and           *)
(* revoke_session called with every pairing of a session id and a user id,   *)
(* ids that were never issued included                                       *)

NextRevoke ==
    \/ clock < MaxAccountsTime /\ Tick
    \/ \E n \in Usernames : create_user(n, GoodPass, "user")
    \/ \E n \in Usernames : authenticate(n, GoodPass, None)
    \/ \E sid \in SessionIds \cup {MaxSessions + 1}, id \in ExistingIds :
          revoke_session(sid, id)

SpecRevoke == Init /\ [][NextRevoke]_vars

(* C39: revoke_session(session_id, user_id) removes exactly the sessions     *)
(* with that id that belong to user_id, which is at most one; it returns     *)
(* true when it removed one, and called with an id of another user's session *)
(* or an id no session has it returns false and the sessions are unchanged.  *)
C39_RevokeOnlyOwnSession ==
    [][ret'.op = "revoke_session" =>
          LET named == {s \in sessions : s.id = ret'.seconds /\ s.user_id = ret'.uid}
          IN /\ sessions' = sessions \ named
             /\ Cardinality(sessions \ sessions') <= 1
             /\ ret'.ok <=> named # {}
             /\ named = {} => sessions' = sessions]_vars

C39_Witness ==
    /\ ret.op = "revoke_session"
    /\ ~ret.ok
    /\ \E s \in sessions : s.id = ret.seconds /\ s.user_id # ret.uid
    /\ \E s \in sessions : s.user_id = ret.uid

----------------------------------------------------------------------------
(* Credential changes and the sessions already issued (SpecMfa)              *)

C40_CredentialOps ==
    {"change_password", "enable_mfa", "verify_and_enable_mfa", "disable_mfa"}

(* C40: change_password, enable_mfa, verify_and_enable_mfa and disable_mfa,  *)
(* whether they succeed or fail, leave the sessions as they are, and every   *)
(* token of a stored session gets from verify_token after the call the       *)
(* answer it would have got before it.                                       *)
C40_CredentialChangeKeepsSessions ==
    [][ret'.op \in C40_CredentialOps =>
          /\ sessions' = sessions
          /\ \A s \in sessions : verify_errors(s.token)' = verify_errors(s.token)]_vars

C40_Witness ==
    /\ ret.op = "change_password"
    /\ ret.ok
    /\ \E s \in sessions : s.user_id = ret.uid /\ verify_errors(s.token) = <<>>
    /\ \E u \in users : u.id = ret.uid /\ u.password_hash = hashpw(OtherPass)

====
